---- MODULE Spec2Model ----
(***************************************************************************)
(* Answer-generation pipeline of backend/app/services/answer.py:          *)
(* LLM gateway, response parser, citation formatter and the orchestrator  *)
(* (single question, whole-project batch, whole-project streaming),       *)
(* together with the review endpoint of backend/app/api/answers.py.       *)
(*                                                                         *)
(* Text is a sequence of lexemes (strings).  A lexeme is a run of         *)
(* characters that the code never looks inside: the markers               *)
(* "CONFIDENCE:" and "INSUFFICIENT_DATA", one whitespace character, a     *)
(* word, a numeral, one digit, one punctuation character.  Python's       *)
(* substring test, split, rsplit, strip and the regular expressions are   *)
(* computed on these sequences.                                           *)
(***************************************************************************)
EXTENDS Integers, Sequences, FiniteSets, TLC

VARIABLES
    response,     \* parser: the raw model text handed to parse_answer_response
    parsed,       \* parser: the dictionary parse_answer_response returned
    pdone,        \* parser: parse_answer_response has returned
    answer_text,    \* formatter: the parsed answer text handed to it
    context_chunks, \* formatter: the retrieved chunks handed to it
    formatted,      \* formatter: the pair it returned
    fdone,          \* formatter: extract_and_format_citations has returned
    answers,        \* the answers table: per question its rows, in insertion order
    req,            \* the requests under way: route, position, locals
    llm_calls,      \* per question: the calls of call_llm
    client_calls,   \* per question: the calls of client.chat.completions.create
    failed,         \* per question: the calls ("A", "B", "M") whose client call raised
    calls,          \* the requests (generation, review) taken up so far
    faults,         \* the client calls that have raised so far
    fault_limit,    \* the client calls the backend lets fail
    project_status  \* the status of the project

parseVars == <<response, parsed, pdone>>
citeVars == <<answer_text, context_chunks, formatted, fdone>>
orchVars == <<answers, req, llm_calls, client_calls, failed, calls, faults, fault_limit,
              project_status>>
vars == <<response, parsed, pdone, answer_text, context_chunks, formatted, fdone,
          answers, req, llm_calls, client_calls, failed, calls, faults, fault_limit,
          project_status>>

----------------------------------------------------------------------------
(* Bounds *)

MaxRawLen == 4
MaxSegs == 2
MaxChunks == 2
NQuestions == 2
MaxCalls == 3

----------------------------------------------------------------------------
(* Python string primitives on lexeme sequences *)

CONFIDENCE_MARKER == "CONFIDENCE:"
INSUFFICIENT_DATA == "INSUFFICIENT_DATA"

IsSpace(x) == x \in {" ", "\n"}

\* `x in s` for a one-lexeme needle
Contains(s, x) == \E i \in 1..Len(s) : s[i] = x

\* the index of the first occurrence, for a split on the first marker
FirstIndex(s, x) == CHOOSE i \in 1..Len(s) : s[i] = x /\ \A j \in 1..(i-1) : s[j] # x

LastIndex(s, x) == CHOOSE i \in 1..Len(s) : s[i] = x /\ \A j \in (i+1)..Len(s) : s[j] # x

\* s.split(x)[-1], for s containing x
AfterLast(s, x) == SubSeq(s, LastIndex(s, x) + 1, Len(s))

\* s.rsplit(x, 1)[0], for s containing x
BeforeLast(s, x) == SubSeq(s, 1, LastIndex(s, x) - 1)

LStripIndex(s) ==
    IF \A i \in 1..Len(s) : IsSpace(s[i]) THEN Len(s) + 1
    ELSE CHOOSE i \in 1..Len(s) : ~IsSpace(s[i]) /\ \A j \in 1..(i-1) : IsSpace(s[j])

RStripIndex(s) ==
    IF \A i \in 1..Len(s) : IsSpace(s[i]) THEN 0
    ELSE CHOOSE i \in 1..Len(s) : ~IsSpace(s[i]) /\ \A j \in (i+1)..Len(s) : IsSpace(s[j])

\* s.strip()
Strip(s) == SubSeq(s, LStripIndex(s), RStripIndex(s))

\* s.split()[0]: the first maximal run of non-whitespace lexemes;
\* ok = FALSE is the IndexError of indexing an empty list
FirstToken(s) ==
    LET b == LStripIndex(s) IN
    IF b > Len(s) THEN [ok |-> FALSE, tok |-> <<>>]
    ELSE LET e == CHOOSE k \in b..Len(s) :
                     /\ \A j \in b..k : ~IsSpace(s[j])
                     /\ (k = Len(s) \/ IsSpace(s[k+1]))
         IN [ok |-> TRUE, tok |-> SubSeq(s, b, e)]

----------------------------------------------------------------------------
(* Floating point values, in tenths; nan compares false with everything *)

Num(t) == [kind |-> "num", v |-> t]
NaN == [kind |-> "nan", v |-> 0]

FloatLt(a, b) == a.kind = "num" /\ b.kind = "num" /\ a.v < b.v

\* Python's min(a, b): b if b < a else a
PyMin(a, b) == IF FloatLt(b, a) THEN b ELSE a

\* Python's max(a, b): b if b > a else a
PyMax(a, b) == IF FloatLt(a, b) THEN b ELSE a

NumeralLexemes == {"-0.3", "0.8", "1.7", "nan"}

NumeralValue(x) ==
    CASE x = "-0.3" -> Num(-3)
      [] x = "0.8"  -> Num(8)
      [] x = "1.7"  -> Num(17)
      [] x = "nan"  -> NaN

\* float(tok): a token is a float literal only when it is exactly one numeral
\* lexeme (two lexemes run together, such as "0.8" "1.7" or "0.8" "high",
\* spell no float literal); ok = FALSE is the ValueError
PyFloat(tok) ==
    IF Len(tok) = 1 /\ tok[1] \in NumeralLexemes
    THEN [ok |-> TRUE, val |-> NumeralValue(tok[1])]
    ELSE [ok |-> FALSE, val |-> NaN]

----------------------------------------------------------------------------
(* Response parser *)

DEFAULT_CONFIDENCE == Num(5)

\* a clamp that forgets the upper limit
ClampLowerOnly(c) == PyMax(Num(0), c)

\* max(0.0, min(1.0, confidence))
Clamp(c) == PyMax(Num(0), PyMin(Num(10), c))

ParseConfidence(raw) ==
    IF Contains(raw, CONFIDENCE_MARKER)
    THEN LET conf_part == Strip(AfterLast(raw, CONFIDENCE_MARKER))
             first     == FirstToken(conf_part)
             f         == PyFloat(first.tok)
         IN IF first.ok /\ f.ok THEN Clamp(f.val) ELSE DEFAULT_CONFIDENCE
    ELSE DEFAULT_CONFIDENCE

\* an answerability test made on the cleaned text instead of the raw text
ParseAnswerabilityOnCleaned(raw) ==
    IF Contains(IF Contains(raw, CONFIDENCE_MARKER)
                THEN Strip(BeforeLast(raw, CONFIDENCE_MARKER)) ELSE raw,
                INSUFFICIENT_DATA)
    THEN "partial" ELSE "yes"

ParseAnswerability(raw) ==
    IF Contains(raw, INSUFFICIENT_DATA) THEN "partial" ELSE "yes"

ParseText(raw) ==
    IF Contains(raw, CONFIDENCE_MARKER)
    THEN Strip(BeforeLast(raw, CONFIDENCE_MARKER))
    ELSE raw

parse_answer_response(raw) ==
    [text          |-> ParseText(raw),
     confidence    |-> ParseConfidence(raw),
     is_answerable |-> ParseAnswerability(raw)]

----------------------------------------------------------------------------
(* More string primitives: lower(), substring test, str(int), int(str) *)

Lower(x) ==
    CASE x = "[Source:" -> "[source:"
      [] x = "(Source:" -> "(source:"
      [] x = "Page"     -> "page"
      [] x = "10-K.pdf" -> "10-k.pdf"
      [] x = "Q3"       -> "q3"
      [] x = "Memo.pdf" -> "memo.pdf"
      [] x = "Revenue"  -> "revenue"
      [] OTHER          -> x

LowerSeq(s) == [i \in 1..Len(s) |-> Lower(s[i])]

\* `needle in hay`: a contiguous occurrence (the empty needle occurs in anything)
IsSubstring(needle, hay) ==
    \E i \in 0..(Len(hay) - Len(needle)) :
        \A j \in 1..Len(needle) : hay[i + j] = needle[j]

DigitLexemes == {"0", "1", "2", "3", "4", "5", "6", "7", "8", "9"}

DigitOf(n) ==
    CASE n = 0 -> "0" [] n = 1 -> "1" [] n = 2 -> "2" [] n = 3 -> "3" [] n = 4 -> "4"
      [] n = 5 -> "5" [] n = 6 -> "6" [] n = 7 -> "7" [] n = 8 -> "8" [] n = 9 -> "9"

DigitValue(d) == CHOOSE n \in 0..9 : DigitOf(n) = d

RECURSIVE PyStr(_)
\* str(n) for a non-negative integer
PyStr(n) == IF n < 10 THEN <<DigitOf(n)>> ELSE Append(PyStr(n \div 10), DigitOf(n % 10))

RECURSIVE PyInt(_)
\* int(digits) for a non-empty run of digits
PyInt(ds) ==
    IF Len(ds) = 1 THEN DigitValue(ds[1])
    ELSE 10 * PyInt(SubSeq(ds, 1, Len(ds) - 1)) + DigitValue(ds[Len(ds)])

----------------------------------------------------------------------------
(* Prompt builder: the rendering of one source *)

\* f"[Source: {doc_name}, Page {page}]"
FormatSource(doc_name, page) ==
    <<"[Source:", " ">> \o doc_name \o <<",", " ", "Page", " ">> \o PyStr(page) \o <<"]">>

----------------------------------------------------------------------------
(* Citation formatter *)

EXCERPT_LIMIT == 200

ELLIPSIS == <<".", ".", ".">>

\* f"{doc_name}_p{page}": page is an integer, so the name and the page can be
\* read back from the key and the pair stands for the string
CitationKey(doc_name, page) == <<doc_name, page>>

\* an excerpt cut one character too early
ExcerptOffByOne(text) ==
    IF Len(text) >= EXCERPT_LIMIT THEN SubSeq(text, 1, EXCERPT_LIMIT) \o ELLIPSIS ELSE text

\* chunk["text"][:200] + "..." if len(chunk["text"]) > 200 else chunk["text"]
Excerpt(text) ==
    IF Len(text) > EXCERPT_LIMIT THEN SubSeq(text, 1, EXCERPT_LIMIT) \o ELLIPSIS ELSE text

\* doc_name.lower() in answer_text.lower() or f"page {page}" in answer_text.lower()
IsMentioned(chunk, text) ==
    \/ IsSubstring(LowerSeq(chunk.metadata.doc_name), LowerSeq(text))
    \/ IsSubstring(<<"page", " ">> \o PyStr(chunk.metadata.page), LowerSeq(text))

\* an entry numbered from zero
ChunkCitationZeroBased(chunk, num) ==
    [doc_id   |-> chunk.metadata.doc_id,
     doc_name |-> chunk.metadata.doc_name,
     page     |-> chunk.metadata.page,
     text     |-> Excerpt(chunk.text),
     chunk_id |-> chunk.id,
     num      |-> num - 1]

ChunkCitation(chunk, num) ==
    [doc_id   |-> chunk.metadata.doc_id,
     doc_name |-> chunk.metadata.doc_name,
     page     |-> chunk.metadata.page,
     text     |-> Excerpt(chunk.text),
     chunk_id |-> chunk.id,
     num      |-> num]

InventedCitation(doc_name, page, num) ==
    [doc_id   |-> <<>>,
     doc_name |-> doc_name,
     page     |-> page,
     text     |-> <<>>,
     chunk_id |-> <<>>,
     num      |-> num]

\* a map that does not keep the number of a key
MapForget(map, key, num) == map

\* citation_map[key] = num
MapPut(map, key, num) == [k \in DOMAIN map \cup {key} |-> IF k = key THEN num ELSE map[k]]

EmptyMap == [k \in {} |-> 0]

RECURSIVE FirstPassBackwards(_, _, _, _, _, _)
\* a loop that scans context_chunks from its last chunk to its first
FirstPassBackwards(chunks, i, text, citations, seen, citation_map) ==
    IF i > Len(chunks)
    THEN [citations |-> citations, seen |-> seen, citation_map |-> citation_map]
    ELSE LET chunk == chunks[Len(chunks) + 1 - i]
             key   == CitationKey(chunk.metadata.doc_name, chunk.metadata.page)
         IN IF key \notin seen /\ IsMentioned(chunk, text)
            THEN LET citation_num == Len(citations) + 1 IN
                 FirstPassBackwards(chunks, i + 1, text,
                           Append(citations, ChunkCitation(chunk, citation_num)),
                           seen \cup {key},
                           MapPut(citation_map, key, citation_num))
            ELSE FirstPassBackwards(chunks, i + 1, text, citations, seen, citation_map)

RECURSIVE FirstPass(_, _, _, _, _, _)
\* the loop over context_chunks, from chunk i on
FirstPass(chunks, i, text, citations, seen, citation_map) ==
    IF i > Len(chunks)
    THEN [citations |-> citations, seen |-> seen, citation_map |-> citation_map]
    ELSE LET chunk == chunks[i]
             key   == CitationKey(chunk.metadata.doc_name, chunk.metadata.page)
         IN IF key \notin seen /\ IsMentioned(chunk, text)
            THEN LET citation_num == Len(citations) + 1 IN
                 FirstPass(chunks, i + 1, text,
                           Append(citations, ChunkCitation(chunk, citation_num)),
                           seen \cup {key},
                           MapPut(citation_map, key, citation_num))
            ELSE FirstPass(chunks, i + 1, text, citations, seen, citation_map)

\* \s* from position p: the first position that holds no whitespace
SkipSpaces(text, p) ==
    CHOOSE q \in p..(Len(text) + 1) :
        /\ \A j \in p..(q - 1) : IsSpace(text[j])
        /\ (q = Len(text) + 1 \/ ~IsSpace(text[q]))

\* \d+ from position p: the position after the run of digits (p when there is none)
SkipDigits(text, p) ==
    CHOOSE q \in p..(Len(text) + 1) :
        /\ \A j \in p..(q - 1) : text[j] \in DigitLexemes
        /\ (q = Len(text) + 1 \/ text[q] \notin DigitLexemes)

\* the literal word of a pattern, under re.IGNORECASE or not
LiteralAt(text, p, word, ignorecase) ==
    /\ p <= Len(text)
    /\ IF ignorecase THEN Lower(text[p]) = Lower(word) ELSE text[p] = word

NoMatch == [ok |-> FALSE, name |-> <<>>, digits |-> <<>>, last |-> 0]

\* Page \s* (\d+) close, with Page at p2, the digits from p3 up to p4
SourceTailAt(text, p2, p3, p4, close, ignorecase) ==
    IF /\ LiteralAt(text, p2, "Page", ignorecase)
       /\ p4 > p3
       /\ p4 <= Len(text)
       /\ text[p4] = close
    THEN [ok |-> TRUE, digits |-> SubSeq(text, p3, p4 - 1), last |-> p4]
    ELSE [ok |-> FALSE, digits |-> <<>>, last |-> 0]

\* \s*(\d+) after Page at p2: the digits start at p3
SourceTailDigits(text, p2, p3, close, ignorecase) ==
    SourceTailAt(text, p2, p3, SkipDigits(text, p3), close, ignorecase)

\* Page\s*(\d+) and the closing bracket, Page looked for at p2
SourceTailPage(text, p2, close, ignorecase) ==
    SourceTailDigits(text, p2, SkipSpaces(text, p2 + 1), close, ignorecase)

\* ,?\s*Page\s*(\d+) and the closing bracket, from position p
SourceTail(text, p, close, ignorecase) ==
    SourceTailPage(text,
                   SkipSpaces(text, IF p <= Len(text) /\ text[p] = "," THEN p + 1 ELSE p),
                   close, ignorecase)

\* the ways to match after the opening word at i, k the end of the whitespace
\* that follows it: <<first, last>> positions of the group
SourceWays(text, i, k, excluded, close, ignorecase) ==
    {w \in ((i + 1)..k) \X ((i + 1)..Len(text)) :
        /\ w[2] >= w[1]
        /\ \A j \in w[1]..w[2] : text[j] \notin excluded
        /\ SourceTail(text, w[2] + 1, close, ignorecase).ok}

\* \s* and the group are greedy: of the ways to match, the one with the most
\* whitespace before the group, then with the longest group, is taken
GreedyWay(ways) ==
    CHOOSE x \in ways : \A y \in ways : y[1] < x[1] \/ (y[1] = x[1] /\ y[2] <= x[2])

\* the match object: group 1, group 2 and the position of the closing bracket
MatchObject(text, w, t) ==
    [ok |-> TRUE, name |-> SubSeq(text, w[1], w[2]), digits |-> t.digits, last |-> t.last]

MatchWay(text, w, close, ignorecase) ==
    MatchObject(text, w, SourceTail(text, w[2] + 1, close, ignorecase))

MatchAmong(text, ways, close, ignorecase) ==
    IF ways = {} THEN NoMatch ELSE MatchWay(text, GreedyWay(ways), close, ignorecase)

\* open \s* ([^excluded]+) ,? \s* Page \s* (\d+) close, matched at position i
SourceMatch(text, i, open, excluded, close, ignorecase) ==
    IF ~LiteralAt(text, i, open, ignorecase)
    THEN NoMatch
    ELSE MatchAmong(text,
                    SourceWays(text, i, SkipSpaces(text, i + 1), excluded, close, ignorecase),
                    close, ignorecase)

\* r'\[Source:\s*([^,\]]+),?\s*Page\s*(\d+)\]' with re.IGNORECASE
CitationPatternAt(text, i) == SourceMatch(text, i, "[Source:", {",", "]"}, "]", TRUE)

\* r'\(Source:\s*[^,]+,?\s*Page\s*\d+\)'
ParenPatternAt(text, i) == SourceMatch(text, i, "(Source:", {","}, ")", FALSE)

\* f"[{num}]"
Marker(num) == <<"[">> \o PyStr(num) \o <<"]">>

RECURSIVE SecondPass(_, _, _, _, _)
\* replace_citation(match) for a match that ends at last, and the scan after it
replace_citation(text, last, out, citations, citation_map, doc_name, page) ==
    LET key == CitationKey(doc_name, page) IN
    IF key \in DOMAIN citation_map
    THEN SecondPass(text, last + 1, out \o Marker(citation_map[key]),
                    citations, citation_map)
    ELSE LET citation_num == Len(citations) + 1 IN
         SecondPass(text, last + 1, out \o Marker(citation_num),
                    Append(citations, InventedCitation(doc_name, page, citation_num)),
                    MapPut(citation_map, key, citation_num))

\* the scan at position i, m what the pattern matches there
SecondPassAt(text, i, out, citations, citation_map, m) ==
    IF ~m.ok
    THEN SecondPass(text, i + 1, Append(out, text[i]), citations, citation_map)
    ELSE replace_citation(text, m.last, out, citations, citation_map,
                          Strip(m.name), PyInt(m.digits))

\* re.sub(citation_pattern, replace_citation, ...): left to right, a match is
\* replaced by what replace_citation returns and the scan goes on after it
SecondPass(text, i, out, citations, citation_map) ==
    IF i > Len(text)
    THEN [text |-> out, citations |-> citations, citation_map |-> citation_map]
    ELSE SecondPassAt(text, i, out, citations, citation_map, CitationPatternAt(text, i))

RECURSIVE RemoveParenSources(_, _, _)
\* the scan at position i, m what the pattern matches there
RemoveParenAt(text, i, out, m) ==
    IF m.ok THEN RemoveParenSources(text, m.last + 1, out)
    ELSE RemoveParenSources(text, i + 1, Append(out, text[i]))

\* re.sub(r'\(Source:...\)', '', formatted_text)
RemoveParenSources(text, i, out) ==
    IF i > Len(text) THEN out
    ELSE RemoveParenAt(text, i, out, ParenPatternAt(text, i))

\* the return of the function: the cleaned text of pass 2 and its citations
ExtractReturn(second) ==
    [text |-> RemoveParenSources(second.text, 1, <<>>), citations |-> second.citations]

\* pass 2 on the citations and the map of pass 1
ExtractSecond(text, first) ==
    ExtractReturn(SecondPass(text, 1, <<>>, first.citations, first.citation_map))

extract_and_format_citations(text, chunks) ==
    ExtractSecond(text, FirstPass(chunks, 1, text, <<>>, {}, EmptyMap))

----------------------------------------------------------------------------
(* Specification of the formatter: answer texts of at most MaxSegs segments *)
(* and lists of at most MaxChunks distinct retrieved chunks                 *)

NAME_10K == <<"10-K.pdf">>
NAME_Q3 == <<"Q3", ",", " ", "2023.pdf">>
NAME_MEMO == <<"Memo.pdf">>

\* a chunk text of n characters
CharText(n) == [i \in 1..n |-> IF i % 2 = 1 THEN "a" ELSE "b"]

Chunk(id, doc_id, doc_name, page, n) ==
    [id |-> id, text |-> CharText(n),
     metadata |-> [doc_id |-> doc_id, doc_name |-> doc_name, page |-> page]]

\* what the index holds: ingestion names a chunk's document by the uploaded
\* file name and numbers pages from 1
ChunkPool ==
    {Chunk(<<"d1_chunk_0">>, <<"d1">>, NAME_10K, 5, 3),
     Chunk(<<"d1_chunk_1">>, <<"d1">>, NAME_10K, 5, 201),
     Chunk(<<"d1_chunk_2">>, <<"d1">>, NAME_10K, 57, 200),
     Chunk(<<"d2_chunk_0">>, <<"d2">>, NAME_Q3, 5, 204)}

ChunkLists ==
    {cs \in UNION {[1..n -> ChunkPool] : n \in 0..MaxChunks} :
        \A i, j \in 1..Len(cs) : i # j => cs[i] # cs[j]}

Segments ==
    {<<"Revenue">>,
     FormatSource(NAME_10K, 5),
     FormatSource(NAME_10K, 57),
     FormatSource(NAME_Q3, 5),
     FormatSource(NAME_MEMO, 5),
     <<"[Source:", " ", "10-k.pdf", " ", "Page", " ", "5", "]">>,
     <<"(Source:", " ", "10-K.pdf", " ", "Page", " ", "5", ")">>}

RECURSIVE JoinSegments(_)
JoinSegments(segs) ==
    IF Len(segs) = 0 THEN <<>>
    ELSE IF Len(segs) = 1 THEN segs[1]
    ELSE segs[1] \o <<" ">> \o JoinSegments(Tail(segs))

AnswerTexts == {JoinSegments(segs) : segs \in UNION {[1..n -> Segments] : n \in 0..MaxSegs}}

NoFormat == [text |-> <<>>, citations |-> <<>>]

CiteInit ==
    /\ answer_text \in AnswerTexts
    /\ context_chunks \in ChunkLists
    /\ formatted = NoFormat
    /\ fdone = FALSE

CiteIdle ==
    /\ answer_text = <<>>
    /\ context_chunks = <<>>
    /\ formatted = NoFormat
    /\ fdone = TRUE

FormatCitations ==
    /\ ~fdone
    /\ formatted' = extract_and_format_citations(answer_text, context_chunks)
    /\ fdone' = TRUE
    /\ UNCHANGED <<answer_text, context_chunks>>
    /\ UNCHANGED <<parseVars, orchVars>>

CiteNext == FormatCitations

----------------------------------------------------------------------------
(* LLM gateway *)

ANSWER_TEMP_A == 7
ANSWER_TEMP_B == 9
MERGE_TEMP == 3

ERROR_MARKER == <<"ERROR:", " ">>

\* what client.chat.completions.create does: it raises, or returns a
\* completion without choices, or one whose first choice has a content
Raises(msg) == [kind |-> "raise", content |-> msg]
NoChoices == [kind |-> "nochoices", content |-> <<>>]
Completion(content) == [kind |-> "ok", content |-> content]

\* a gateway that lets the client's exception through
call_llm_raising(outcome) ==
    IF outcome.kind = "raise" THEN <<"raised">> ELSE outcome.content

\* the text call_llm returns for the outcome of its one client call:
\* f"ERROR: {str(e)}", "" or the content
call_llm(outcome) ==
    IF outcome.kind = "raise" THEN ERROR_MARKER \o outcome.content
    ELSE IF outcome.kind = "nochoices" THEN <<>>
    ELSE outcome.content

\* the client calls one call_llm makes: one create(), in no loop
ClientAttempts(outcome) == 1

----------------------------------------------------------------------------
(* Prompt builder *)

build_answer_prompt(question, chunks) ==
    [kind     |-> "answer",
     question |-> question,
     context  |-> [i \in 1..Len(chunks) |->
                     FormatSource(chunks[i].metadata.doc_name, chunks[i].metadata.page)
                       \o <<"\n">> \o chunks[i].text]]

build_merge_prompt(question, answer_a, answer_b) ==
    [kind     |-> "merge",
     question |-> question,
     answer_a |-> answer_a,
     answer_b |-> answer_b]

NoPrompt == [kind |-> "none"]

----------------------------------------------------------------------------
(* The collaborators' answers *)

Questions == 1..NQuestions

\* project.questions
ProjectQuestions == [i \in 1..NQuestions |-> i]

SEARCH_ERROR == <<"index unavailable">>
LLM_ERROR == <<"timeout">>

\* search_chunks(question_text, n_results=8): it raises, finds nothing or
\* finds chunks
SearchOutcomes ==
    {[kind |-> "raise", chunks |-> <<>>],
     [kind |-> "ok", chunks |-> <<>>],
     [kind |-> "ok", chunks |-> <<Chunk(<<"d1_chunk_0">>, <<"d1">>, NAME_10K, 5, 3)>>]}

VARIANT_A_TEXT == <<"Revenue", " ", CONFIDENCE_MARKER, " ", "0.8">>
VARIANT_B_TEXT == <<INSUFFICIENT_DATA, " ", CONFIDENCE_MARKER, " ", "1.7">>
MERGED_TEXT == <<"Revenue", " ">> \o FormatSource(NAME_10K, 5) \o <<" ", CONFIDENCE_MARKER, " ", "0.8">>

\* what the client may do for a prompt at a temperature: the model's answer,
\* or, while the backend has faults left, a failure (network, auth, quota)
\* or a completion without choices
ClientOutcomes(prompt, temperature, may_fail) ==
    (IF prompt.kind = "merge" THEN {Completion(MERGED_TEXT)}
     ELSE IF temperature = ANSWER_TEMP_A THEN {Completion(VARIANT_A_TEXT)}
     ELSE {Completion(VARIANT_B_TEXT)})
    \cup (IF may_fail THEN {Raises(LLM_ERROR), NoChoices} ELSE {})

----------------------------------------------------------------------------
(* Persistence: the answers table *)

AnswerStatuses == {"PENDING", "GENERATED", "CONFIRMED", "REJECTED", "MANUAL"}

PLACEHOLDER_TEXT ==
    <<"No documents have been indexed yet.", " ", "Please upload and index documents first.">>

STREAM_PLACEHOLDER_TEXT == <<"No documents indexed.">>

\* a record left at the status the column defaults to
AnswerPending(id, question_id, ai_answer, variant_a, variant_b, citations, confidence, is_answerable) ==
    [id               |-> id,
     question_id      |-> question_id,
     ai_answer        |-> ai_answer,
     answer_variant_a |-> variant_a,
     answer_variant_b |-> variant_b,
     manual_answer    |-> <<>>,
     citations        |-> citations,
     confidence       |-> confidence,
     is_answerable    |-> is_answerable,
     status           |-> "PENDING"]

\* Answer(...) with status GENERATED, as both generation paths build it, and
\* the column default of manual_answer
Answer(id, question_id, ai_answer, variant_a, variant_b, citations, confidence, is_answerable) ==
    [id               |-> id,
     question_id      |-> question_id,
     ai_answer        |-> ai_answer,
     answer_variant_a |-> variant_a,
     answer_variant_b |-> variant_b,
     manual_answer    |-> <<>>,
     citations        |-> citations,
     confidence       |-> confidence,
     is_answerable    |-> is_answerable,
     status           |-> "GENERATED"]

\* an existence test that overlooks reviewed answers
ExistingGenerated(table, q) == SelectSeq(table[q], LAMBDA row : row.status = "GENERATED")

\* db.query(Answer).filter(Answer.question_id == question.id): .first() is its head
Existing(table, q) == table[q]

\* str(uuid.uuid4()): an id no row has
NewId(table, q) == <<q, Len(table[q]) + 1>>

\* a table with a unique constraint on question_id: a second row for a
\* question is not stored
InsertUnique(table, answer) ==
    IF Len(table[answer.question_id]) > 0 THEN table
    ELSE [table EXCEPT ![answer.question_id] = Append(@, answer)]

\* db.add(answer); db.commit()
Insert(table, answer) == [table EXCEPT ![answer.question_id] = Append(@, answer)]

\* a zero-chunk record left at the answerability the column defaults to
PlaceholderAnswerDefaults(table, q, text) ==
    Answer(NewId(table, q), q, text, <<>>, <<>>, <<>>, Num(0), "unknown")

\* the record of the zero-chunk path
PlaceholderAnswer(table, q, text) ==
    Answer(NewId(table, q), q, text, <<>>, <<>>, <<>>, Num(0), "no")

\* answer = Answer(...) from the parsed response p and the formatted pair f
StoredAnswer(table, q, answer_a, answer_b, p, f) ==
    Answer(NewId(table, q), q, f.text, answer_a, answer_b, f.citations,
           p.confidence, p.is_answerable)

\* the texts the merge call may return and the chunk lists a search may find
FinalTexts ==
    {call_llm(outcome) :
        outcome \in ClientOutcomes(build_merge_prompt(0, <<>>, <<>>), MERGE_TEMP, TRUE)}

FoundChunkLists == {found.chunks : found \in SearchOutcomes}

\* parsed = parse_answer_response(final_answer_raw) and
\* formatted_text, citations = extract_and_format_citations(parsed["text"], chunks),
\* tabulated over these texts and chunk lists
ParsedAndFormatted ==
    [raw \in FinalTexts, chunks \in FoundChunkLists |->
        LET p == parse_answer_response(raw)
        IN [parsed |-> p, formatted |-> extract_and_format_citations(p.text, chunks)]]

\* the record built from the merged text: parse, then format citations
GeneratedAnswer(table, q, chunks, answer_a, answer_b, final_answer_raw) ==
    StoredAnswer(table, q, answer_a, answer_b,
                 ParsedAndFormatted[final_answer_raw, chunks].parsed,
                 ParsedAndFormatted[final_answer_raw, chunks].formatted)

----------------------------------------------------------------------------
(* Requests *)

Reqs == {"r1", "r2"}

NoFuture == [state |-> "none", prompt |-> NoPrompt, temperature |-> 0, result |-> <<>>]

\* loop.run_in_executor(None, call_llm, prompt, temperature)
Submitted(prompt, temperature) ==
    [state |-> "running", prompt |-> prompt, temperature |-> temperature, result |-> <<>>]

NoReturn == [kind |-> "none"]

\* a request: its route (kind), where it stands (pc), the loop index, the
\* locals of the generation under way (q, chunks, the two futures, the merge
\* prompt), the search calls it made, the questions it called generation for
\* and those whose generation raised, the batch or stream bookkeeping, and
\* what it hands to its caller (ret)
IdleRequest ==
    [kind |-> "idle", pc |-> "idle", idx |-> 0, q |-> 0, chunks |-> <<>>,
     futA |-> NoFuture, futB |-> NoFuture, merge_prompt |-> NoPrompt,
     searches |-> 0, processed |-> <<>>, raised |-> {},
     generated |-> 0, errors |-> <<>>, events |-> <<>>, finished |-> <<>>,
     ret |-> NoReturn]

OrchInit ==
    /\ answers = [q \in Questions |-> <<>>]
    /\ req = [r \in Reqs |-> IdleRequest]
    /\ llm_calls = [q \in Questions |-> 0]
    /\ client_calls = [q \in Questions |-> 0]
    /\ failed = [q \in Questions |-> {}]
    /\ calls = 0
    /\ faults = 0
    /\ fault_limit = 0
    /\ project_status = "DRAFT"

OrchIdle ==
    /\ answers = [q \in Questions |-> <<>>]
    /\ req = [r \in Reqs |-> IdleRequest]
    /\ llm_calls = [q \in Questions |-> 0]
    /\ client_calls = [q \in Questions |-> 0]
    /\ failed = [q \in Questions |-> {}]
    /\ calls = MaxCalls
    /\ faults = 0
    /\ fault_limit = 0
    /\ project_status = "DRAFT"

\* the join of asyncio.gather: both futures have a result
BothDone(rq) == rq.futA.state = "done" /\ rq.futB.state = "done"

\* a join that goes on as soon as one future has a result
EitherDone(rq) == rq.futA.state = "done" \/ rq.futB.state = "done"

Gathered(rq) == BothDone(rq)

\* a gather that hands the results over in the order the calls completed
GatherInCompletionOrder(rq) ==
    IF rq.finished = <<"B", "A">> THEN <<rq.futB.result, rq.futA.result>>
    ELSE <<rq.futA.result, rq.futB.result>>

\* answer_a, answer_b = await asyncio.gather(answer_a_future, answer_b_future):
\* the results in the order of the awaitables
GatherResults(rq) == <<rq.futA.result, rq.futB.result>>

\* a generate_answer that stores a pending row before it awaits the variants
GenerateBeginEarlyInsert(table, q, found) ==
    IF Len(Existing(table, q)) > 0
    THEN [step |-> "return", row |-> Head(Existing(table, q)), table |-> table,
          searched |-> FALSE, chunks |-> <<>>, error |-> <<>>]
    ELSE IF found.kind = "raise"
    THEN [step |-> "raise", row |-> <<>>, table |-> table,
          searched |-> TRUE, chunks |-> <<>>, error |-> SEARCH_ERROR]
    ELSE IF Len(found.chunks) = 0
    THEN LET answer == PlaceholderAnswer(table, q, PLACEHOLDER_TEXT) IN
         [step |-> "return", row |-> answer, table |-> Insert(table, answer),
          searched |-> TRUE, chunks |-> <<>>, error |-> <<>>]
    ELSE [step |-> "await", row |-> <<>>,
          table |-> Insert(table, AnswerPending(NewId(table, q), q, <<>>, <<>>, <<>>, <<>>,
                                                Num(0), "unknown")),
          searched |-> TRUE, chunks |-> found.chunks, error |-> <<>>]

\* generate_answer up to its await: the existence check, the search, the
\* zero-chunk record, the two submissions.  step is what it came to:
\* "return" (with the row), "raise" (with the message) or "await"
GenerateBegin(table, q, found) ==
    IF Len(Existing(table, q)) > 0
    THEN [step |-> "return", row |-> Head(Existing(table, q)), table |-> table,
          searched |-> FALSE, chunks |-> <<>>, error |-> <<>>]
    ELSE IF found.kind = "raise"
    THEN [step |-> "raise", row |-> <<>>, table |-> table,
          searched |-> TRUE, chunks |-> <<>>, error |-> SEARCH_ERROR]
    ELSE IF Len(found.chunks) = 0
    THEN LET answer == PlaceholderAnswer(table, q, PLACEHOLDER_TEXT) IN
         [step |-> "return", row |-> answer, table |-> Insert(table, answer),
          searched |-> TRUE, chunks |-> <<>>, error |-> <<>>]
    ELSE [step |-> "await", row |-> <<>>, table |-> table,
          searched |-> TRUE, chunks |-> found.chunks, error |-> <<>>]

\* a batch that stops at the first question whose generation raises
SettleAbortOnError(rq, step, row, error) ==
    IF rq.kind = "single"
    THEN [rq EXCEPT !.pc = "done",
                    !.ret = IF step = "return" THEN [kind |-> "row", row |-> row]
                            ELSE [kind |-> "raised", error |-> error]]
    ELSE LET generated == IF step = "return" THEN rq.generated + 1 ELSE rq.generated
             errors    == IF step = "return" THEN rq.errors
                          ELSE Append(rq.errors, [question_id |-> rq.q, error |-> error])
             last      == rq.idx + 1 > NQuestions \/ step = "raise"
         IN [rq EXCEPT !.generated = generated,
                       !.errors = errors,
                       !.idx = rq.idx + 1,
                       !.pc = IF last THEN "done" ELSE "loop",
                       !.ret = IF last
                               THEN [kind |-> "summary", project_id |-> "p1",
                                     total |-> NQuestions, generated |-> generated,
                                     errors |-> errors]
                               ELSE NoReturn]

\* the caller's bookkeeping once generate_answer has returned or raised:
\* the route of one question hands the row on (or fails), the batch counts
\* it (or appends to its errors) and goes to the next question
Settle(rq, step, row, error) ==
    IF rq.kind = "single"
    THEN [rq EXCEPT !.pc = "done",
                    !.ret = IF step = "return" THEN [kind |-> "row", row |-> row]
                            ELSE [kind |-> "raised", error |-> error]]
    ELSE LET generated == IF step = "return" THEN rq.generated + 1 ELSE rq.generated
             errors    == IF step = "return" THEN rq.errors
                          ELSE Append(rq.errors, [question_id |-> rq.q, error |-> error])
         IN [rq EXCEPT !.generated = generated,
                       !.errors = errors,
                       !.idx = rq.idx + 1,
                       !.pc = IF rq.idx + 1 > NQuestions THEN "done" ELSE "loop",
                       !.ret = IF rq.idx + 1 > NQuestions
                               THEN [kind |-> "summary", project_id |-> "p1",
                                     total |-> NQuestions, generated |-> generated,
                                     errors |-> errors]
                               ELSE NoReturn]

\* generate_answer(question, db) from its first line to its await
Begin(r, rq, q) ==
    \E found \in SearchOutcomes :
      LET b == GenerateBegin(answers, q, found)
          prompt == build_answer_prompt(q, b.chunks)
          searches == rq.searches + (IF b.searched THEN 1 ELSE 0)
      IN /\ answers' = b.table
         /\ req' = [req EXCEPT ![r] =
                      IF b.step = "await"
                      THEN [rq EXCEPT !.pc = "gather", !.q = q, !.chunks = b.chunks,
                                      !.searches = searches,
                                      !.processed = Append(@, q),
                                      !.merge_prompt = NoPrompt, !.finished = <<>>,
                                      !.futA = Submitted(prompt, ANSWER_TEMP_A),
                                      !.futB = Submitted(prompt, ANSWER_TEMP_B)]
                      ELSE Settle([rq EXCEPT !.q = q, !.chunks = <<>>,
                                             !.searches = searches,
                                             !.processed = Append(@, q),
                                             !.raised = IF b.step = "raise"
                                                        THEN @ \cup {q} ELSE @,
                                             !.merge_prompt = NoPrompt, !.finished = <<>>,
                                             !.futA = NoFuture, !.futB = NoFuture],
                                  b.step, b.row, b.error)]
         /\ UNCHANGED <<llm_calls, client_calls, failed, faults, fault_limit>>

\* POST /api/answers/{question_id}/generate
GenerateSingle(r, q) ==
    /\ req[r].kind = "idle"
    /\ calls < MaxCalls
    /\ calls' = calls + 1
    /\ Begin(r, [IdleRequest EXCEPT !.kind = "single"], q)
    /\ UNCHANGED <<parseVars, citeVars, project_status>>

\* POST /api/projects/{project_id}/generate
GenerateBatch(r) ==
    /\ req[r].kind = "idle"
    /\ calls < MaxCalls
    /\ calls' = calls + 1
    /\ req' = [req EXCEPT ![r] = [IdleRequest EXCEPT !.kind = "batch", !.pc = "loop", !.idx = 1]]
    /\ UNCHANGED <<answers, llm_calls, client_calls, failed, faults, fault_limit>>
    /\ UNCHANGED <<parseVars, citeVars, project_status>>

\* one turn of the loop of generate_answers_for_project, to the await of
\* generate_answer or to its end
BatchQuestion(r) ==
    /\ req[r].kind = "batch"
    /\ req[r].pc = "loop"
    /\ Begin(r, req[r], ProjectQuestions[req[r].idx])
    /\ UNCHANGED <<calls, fault_limit>>
    /\ UNCHANGED <<parseVars, citeVars, project_status>>

\* a worker thread of the executor runs call_llm for one of the two futures
RunVariant(r, which) ==
    LET rq  == req[r]
        fut == IF which = "A" THEN rq.futA ELSE rq.futB
    IN /\ rq.pc = "gather"
       /\ fut.state = "running"
       /\ \E outcome \in ClientOutcomes(fut.prompt, fut.temperature, faults < fault_limit) :
            LET done == [fut EXCEPT !.state = "done", !.result = call_llm(outcome)] IN
            /\ req' = [req EXCEPT ![r] =
                         IF which = "A"
                         THEN [rq EXCEPT !.futA = done, !.finished = Append(@, which)]
                         ELSE [rq EXCEPT !.futB = done, !.finished = Append(@, which)]]
            /\ llm_calls' = [llm_calls EXCEPT ![rq.q] = @ + 1]
            /\ client_calls' = [client_calls EXCEPT ![rq.q] = @ + ClientAttempts(outcome)]
            /\ failed' = [failed EXCEPT ![rq.q] =
                            IF outcome.kind = "raise" THEN @ \cup {which} ELSE @]
            /\ faults' = IF outcome.kind = "ok" THEN faults ELSE faults + 1
       /\ UNCHANGED <<answers, calls, fault_limit>>
       /\ UNCHANGED <<parseVars, citeVars, project_status>>

\* generate_answer after asyncio.gather: merge, parse, format, store
GenerateJoin(r) ==
    LET rq == req[r] IN
    /\ rq.kind \in {"single", "batch"}
    /\ rq.pc = "gather"
    /\ Gathered(rq)
    /\ LET answer_a     == GatherResults(rq)[1]
           answer_b     == GatherResults(rq)[2]
           merge_prompt == build_merge_prompt(rq.q, answer_a, answer_b)
       IN \E outcome \in ClientOutcomes(merge_prompt, MERGE_TEMP, faults < fault_limit) :
            LET final_answer_raw == call_llm(outcome)
                answer == GeneratedAnswer(answers, rq.q, rq.chunks, answer_a, answer_b,
                                          final_answer_raw)
            IN /\ answers' = Insert(answers, answer)
               /\ req' = [req EXCEPT ![r] =
                            Settle([rq EXCEPT !.merge_prompt = merge_prompt],
                                   "return", answer, <<>>)]
               /\ llm_calls' = [llm_calls EXCEPT ![rq.q] = @ + 1]
               /\ client_calls' = [client_calls EXCEPT ![rq.q] = @ + ClientAttempts(outcome)]
               /\ failed' = [failed EXCEPT ![rq.q] =
                               IF outcome.kind = "raise" THEN @ \cup {"M"} ELSE @]
               /\ faults' = IF outcome.kind = "ok" THEN faults ELSE faults + 1
    /\ UNCHANGED <<calls, fault_limit>>
    /\ UNCHANGED <<parseVars, citeVars, project_status>>

\* the events of the stream
Progress(question_num, stage) ==
    [type |-> "progress", question_num |-> question_num, total |-> NQuestions, stage |-> stage]

ErrorEvent(question_num, error) ==
    [type |-> "error", question_num |-> question_num, total |-> NQuestions, error |-> error]

CompleteEvent(generated, errors) ==
    [type |-> "complete", project_id |-> "p1", total |-> NQuestions,
     generated |-> generated, errors |-> errors]

\* a stream that ends at the first question whose generation raises
StreamSettleStopOnError(rq, ok, error, yielded) ==
    LET generated == IF ok THEN rq.generated + 1 ELSE rq.generated
        errors    == IF ok THEN rq.errors
                     ELSE Append(rq.errors, [question_id |-> rq.q, error |-> error])
        events    == rq.events \o yielded
                       \o (IF ok THEN <<>> ELSE <<ErrorEvent(rq.idx, error)>>)
        last      == rq.idx + 1 > NQuestions
    IN [rq EXCEPT !.generated = generated,
                  !.errors = errors,
                  !.idx = rq.idx + 1,
                  !.pc = IF last \/ ~ok THEN "done" ELSE "loop",
                  !.events = IF last THEN Append(events, CompleteEvent(generated, errors))
                             ELSE events]

\* the end of one turn of the streaming loop: the question counted or its
\* error appended and yielded, then the next question or, after the last,
\* the complete event
StreamSettle(rq, ok, error, yielded) ==
    LET generated == IF ok THEN rq.generated + 1 ELSE rq.generated
        errors    == IF ok THEN rq.errors
                     ELSE Append(rq.errors, [question_id |-> rq.q, error |-> error])
        events    == rq.events \o yielded
                       \o (IF ok THEN <<>> ELSE <<ErrorEvent(rq.idx, error)>>)
        last      == rq.idx + 1 > NQuestions
    IN [rq EXCEPT !.generated = generated,
                  !.errors = errors,
                  !.idx = rq.idx + 1,
                  !.pc = IF last THEN "done" ELSE "loop",
                  !.events = IF last THEN Append(events, CompleteEvent(generated, errors))
                             ELSE events]

\* GET /api/projects/{project_id}/generate-stream
GenerateStream(r) ==
    /\ req[r].kind = "idle"
    /\ calls < MaxCalls
    /\ calls' = calls + 1
    /\ req' = [req EXCEPT ![r] = [IdleRequest EXCEPT !.kind = "stream", !.pc = "loop", !.idx = 1]]
    /\ UNCHANGED <<answers, llm_calls, client_calls, failed, faults, fault_limit>>
    /\ UNCHANGED <<parseVars, citeVars, project_status>>

\* one turn of the loop of generate_answers_for_project_with_progress, to
\* its await or to its end
StreamQuestion(r) ==
    LET rq0 == req[r]
        q   == ProjectQuestions[rq0.idx]
        rq1 == [rq0 EXCEPT !.q = q, !.chunks = <<>>, !.futA = NoFuture, !.futB = NoFuture,
                           !.merge_prompt = NoPrompt, !.finished = <<>>,
                           !.processed = Append(@, q)]
        rq  == [rq1 EXCEPT !.searches = @ + 1]
        opening == <<Progress(rq0.idx, "starting"), Progress(rq0.idx, "retrieving_context")>>
    IN /\ rq0.kind = "stream"
       /\ rq0.pc = "loop"
       /\ IF Len(Existing(answers, q)) > 0
          THEN /\ req' = [req EXCEPT ![r] =
                            StreamSettle(rq1, TRUE, <<>>,
                                         Append(opening, Progress(rq0.idx, "cached")))]
               /\ UNCHANGED answers
          ELSE \E found \in SearchOutcomes :
                 /\ IF found.kind = "raise"
                    THEN /\ req' = [req EXCEPT ![r] =
                                      StreamSettle([rq EXCEPT !.raised = @ \cup {q}],
                                                   FALSE, SEARCH_ERROR, opening)]
                         /\ UNCHANGED answers
                    ELSE IF Len(found.chunks) = 0
                    THEN /\ answers' = Insert(answers,
                                 PlaceholderAnswer(answers, q, STREAM_PLACEHOLDER_TEXT))
                         /\ req' = [req EXCEPT ![r] = StreamSettle(rq, TRUE, <<>>, opening)]
                    ELSE LET prompt == build_answer_prompt(q, found.chunks) IN
                         /\ req' = [req EXCEPT ![r] =
                                      [rq EXCEPT !.pc = "gather", !.chunks = found.chunks,
                                         !.events = rq.events \o
                                            Append(opening, Progress(rq0.idx, "parallel_generation")),
                                         !.futA = Submitted(prompt, ANSWER_TEMP_A),
                                         !.futB = Submitted(prompt, ANSWER_TEMP_B)]]
                         /\ UNCHANGED answers
       /\ UNCHANGED <<llm_calls, client_calls, failed, calls, faults, fault_limit>>
       /\ UNCHANGED <<parseVars, citeVars, project_status>>

\* the streaming loop after asyncio.gather: merge, parse, format, store
StreamJoin(r) ==
    LET rq == req[r] IN
    /\ rq.kind = "stream"
    /\ rq.pc = "gather"
    /\ Gathered(rq)
    /\ LET answer_a     == GatherResults(rq)[1]
           answer_b     == GatherResults(rq)[2]
           merge_prompt == build_merge_prompt(rq.q, answer_a, answer_b)
       IN \E outcome \in ClientOutcomes(merge_prompt, MERGE_TEMP, faults < fault_limit) :
            LET final_answer_raw == call_llm(outcome)
                answer == GeneratedAnswer(answers, rq.q, rq.chunks, answer_a, answer_b,
                                          final_answer_raw)
            IN /\ answers' = Insert(answers, answer)
               /\ req' = [req EXCEPT ![r] =
                            StreamSettle([rq EXCEPT !.merge_prompt = merge_prompt], TRUE, <<>>,
                                         <<Progress(rq.idx, "merging"),
                                           Progress(rq.idx, "complete")>>)]
               /\ llm_calls' = [llm_calls EXCEPT ![rq.q] = @ + 1]
               /\ client_calls' = [client_calls EXCEPT ![rq.q] = @ + ClientAttempts(outcome)]
               /\ failed' = [failed EXCEPT ![rq.q] =
                               IF outcome.kind = "raise" THEN @ \cup {"M"} ELSE @]
               /\ faults' = IF outcome.kind = "ok" THEN faults ELSE faults + 1
    /\ UNCHANGED <<calls, fault_limit>>
    /\ UNCHANGED <<parseVars, citeVars, project_status>>

\* the route hands the result to its caller and the request is over; the
\* project routes set the status of the project on their way out
Respond(r) ==
    /\ req[r].pc = "done"
    /\ req' = [req EXCEPT ![r] = IdleRequest]
    /\ project_status' = IF req[r].kind \in {"batch", "stream"} THEN "READY"
                         ELSE project_status
    /\ UNCHANGED <<answers, llm_calls, client_calls, failed, calls, faults, fault_limit>>
    /\ UNCHANGED <<parseVars, citeVars>>

MANUAL_TEXT == <<"Reviewed by hand.">>

\* the reviews a reviewer sends: back to PENDING, or a manual answer
Reviews ==
    {[status |-> "PENDING", manual_answer |-> <<>>],
     [status |-> "MANUAL", manual_answer |-> MANUAL_TEXT]}

\* PATCH /api/answers/{answer_id} (an unknown id is a 404 and a status that
\* is none of AnswerStatus a 400: neither changes anything)
UpdateAnswer(answer_id, status, manual_answer) ==
    LET q == answer_id[1]
        i == answer_id[2]
    IN /\ calls < MaxCalls
       /\ calls' = calls + 1
       /\ i \in 1..Len(answers[q])
       /\ status \in AnswerStatuses
       /\ answers' = [answers EXCEPT ![q][i] =
                        [@ EXCEPT !.status = status,
                                  !.manual_answer =
                                     IF status = "MANUAL" /\ manual_answer # <<>>
                                     THEN manual_answer ELSE @]]
       /\ UNCHANGED <<req, llm_calls, client_calls, failed, faults, fault_limit>>
    /\ UNCHANGED <<parseVars, citeVars, project_status>>

\* requests come one at a time: none is taken up while another is under way,
\* so one of the request slots serves them all
NoneUnderWay == \A r \in Reqs : req[r].kind = "idle"

SerialReqs == {"r1"}

Next ==
    \/ \E r \in SerialReqs, q \in Questions : NoneUnderWay /\ GenerateSingle(r, q)
    \/ \E r \in SerialReqs : NoneUnderWay /\ GenerateBatch(r)
    \/ \E r \in SerialReqs : NoneUnderWay /\ GenerateStream(r)
    \/ \E r \in SerialReqs : BatchQuestion(r)
    \/ \E r \in SerialReqs : StreamQuestion(r)
    \/ \E r \in SerialReqs, which \in {"A", "B"} : RunVariant(r, which)
    \/ \E r \in SerialReqs : GenerateJoin(r)
    \/ \E r \in SerialReqs : StreamJoin(r)
    \/ \E r \in SerialReqs : Respond(r)
    \/ \E q \in Questions : \E i \in 1..Len(answers[q]), review \in Reviews :
          NoneUnderWay /\ UpdateAnswer(<<q, i>>, review.status, review.manual_answer)

----------------------------------------------------------------------------
(* Specification of the parser: every raw text of at most MaxRawLen lexemes *)

RawLexemes ==
    {CONFIDENCE_MARKER, INSUFFICIENT_DATA, " ", "Revenue", "high"} \cup NumeralLexemes

RawTexts == UNION {[1..n -> RawLexemes] : n \in 0..MaxRawLen}

NoParse == [text |-> <<>>, confidence |-> DEFAULT_CONFIDENCE, is_answerable |-> "unknown"]

ParseInit ==
    /\ response \in RawTexts
    /\ parsed = NoParse
    /\ pdone = FALSE

ParseIdle ==
    /\ response = <<>>
    /\ parsed = NoParse
    /\ pdone = TRUE

ParseResponse ==
    /\ ~pdone
    /\ parsed' = parse_answer_response(response)
    /\ pdone' = TRUE
    /\ UNCHANGED response
    /\ UNCHANGED <<citeVars, orchVars>>

ParseNext == ParseResponse

InitParse == ParseInit /\ CiteIdle /\ OrchIdle

SpecParse == InitParse /\ [][ParseNext]_vars

InitCite == CiteInit /\ ParseIdle /\ OrchIdle

SpecCite == InitCite /\ [][CiteNext]_vars

Init == OrchInit /\ ParseIdle /\ CiteIdle

Spec == Init /\ [][Next]_vars

\* one generation request against a backend that may fail every call
GenInit ==
    /\ answers = [q \in Questions |-> <<>>]
    /\ req = [r \in Reqs |-> IdleRequest]
    /\ llm_calls = [q \in Questions |-> 0]
    /\ client_calls = [q \in Questions |-> 0]
    /\ failed = [q \in Questions |-> {}]
    /\ calls = MaxCalls - 1
    /\ faults = 0
    /\ fault_limit = 3 * NQuestions
    /\ project_status = "DRAFT"

GenNext ==
    \/ \E r \in SerialReqs, q \in Questions : NoneUnderWay /\ GenerateSingle(r, q)
    \/ \E r \in SerialReqs : NoneUnderWay /\ GenerateBatch(r)
    \/ \E r \in SerialReqs : NoneUnderWay /\ GenerateStream(r)
    \/ \E r \in SerialReqs : BatchQuestion(r)
    \/ \E r \in SerialReqs : StreamQuestion(r)
    \/ \E r \in SerialReqs, which \in {"A", "B"} : RunVariant(r, which)
    \/ \E r \in SerialReqs : GenerateJoin(r)
    \/ \E r \in SerialReqs : StreamJoin(r)
    \/ \E r \in SerialReqs : Respond(r)

InitGen == GenInit /\ ParseIdle /\ CiteIdle

SpecGen == InitGen /\ [][GenNext]_vars

----------------------------------------------------------------------------
(* Claims about the parser *)

\* the whitespace-delimited token that follows the last marker of the raw text
\* (the empty sequence when only whitespace, or nothing, follows it)
TokenAfterMarker(raw) == FirstToken(AfterLast(raw, CONFIDENCE_MARKER)).tok

\* C3: the parsed confidence is a number in [0.0, 1.0] for every raw text; a
\* numeral after the marker above 1 gives 1.0, below 0 gives 0.0, one in range
\* is kept; no marker, no token or a token that is no float gives 0.5.
C3_ConfidenceClamped ==
    pdone =>
      /\ parsed.confidence.kind = "num"
      /\ parsed.confidence.v \in 0..10
      /\ ~Contains(response, CONFIDENCE_MARKER) => parsed.confidence = Num(5)
      /\ Contains(response, CONFIDENCE_MARKER) =>
            LET tok == TokenAfterMarker(response) IN
            /\ tok = <<"1.7">>  => parsed.confidence = Num(10)
            /\ tok = <<"-0.3">> => parsed.confidence = Num(0)
            /\ tok = <<"0.8">>  => parsed.confidence = Num(8)
            /\ (tok = <<>> \/ Len(tok) > 1 \/ tok[1] \notin NumeralLexemes)
                 => parsed.confidence = Num(5)

C3_Witness ==
    /\ pdone
    /\ response = <<"Revenue", CONFIDENCE_MARKER, " ", "1.7">>
    /\ parsed.confidence = Num(10)

\* C4: answerability is "partial" exactly when INSUFFICIENT_DATA occurs
\* anywhere in the raw text, also after the confidence marker, and "yes"
\* otherwise; never "no" or "unknown".
C4_AnswerabilityFlag ==
    pdone =>
      /\ parsed.is_answerable \in {"partial", "yes"}
      /\ parsed.is_answerable = "partial"
            <=> (\E i \in 1..Len(response) : response[i] = INSUFFICIENT_DATA)

C4_Witness ==
    /\ pdone
    /\ response = <<CONFIDENCE_MARKER, "0.8", " ", INSUFFICIENT_DATA>>
    /\ parsed.is_answerable = "partial"

----------------------------------------------------------------------------
(* Claims about the citation formatter *)

\* the citation entries of the returned list for one (doc_name, page) source
EntriesFor(doc_name, page) ==
    {i \in 1..Len(formatted.citations) :
        /\ formatted.citations[i].doc_name = doc_name
        /\ formatted.citations[i].page = page}

\* C5: an inline mention [Source: <name>, Page <N>] of a retrieved chunk's
\* source is replaced by [k], k the number of the one citation entry built
\* from a chunk of that source; one chunk and one mention give [1] and a
\* citation list of exactly one entry, with num = 1.
C5_CitationRenumbering ==
    fdone =>
      \A c \in 1..Len(context_chunks) :
        LET doc_name == context_chunks[c].metadata.doc_name
            page     == context_chunks[c].metadata.page
            mention  == FormatSource(doc_name, page)
        IN IsSubstring(mention, answer_text) =>
             /\ ~IsSubstring(mention, formatted.text)
             /\ Cardinality(EntriesFor(doc_name, page)) = 1
             /\ \A i \in EntriesFor(doc_name, page) :
                   /\ formatted.citations[i].chunk_id # <<>>
                   /\ IsSubstring(Marker(formatted.citations[i].num), formatted.text)
             /\ (Len(context_chunks) = 1 /\ answer_text = mention) =>
                   /\ formatted.text = <<"[", "1", "]">>
                   /\ Len(formatted.citations) = 1
                   /\ formatted.citations[1].num = 1

\* the retrieved chunk a citation entry was built from
CitedChunk(entry) ==
    CHOOSE c \in {context_chunks[i] : i \in 1..Len(context_chunks)} : c.id = entry.chunk_id

\* C6: the excerpt of a cited chunk is the chunk text verbatim when it has at
\* most 200 characters, and its first 200 characters followed by "..." when
\* it is longer; never longer than 203 characters.
C6_ExcerptTruncation ==
    fdone =>
      \A i \in 1..Len(formatted.citations) :
        LET entry == formatted.citations[i] IN
        entry.chunk_id # <<>> =>
          LET text == CitedChunk(entry).text IN
          /\ Len(text) <= 200 => entry.text = text
          /\ Len(text) > 200 =>
                /\ Len(entry.text) = 203
                /\ \A j \in 1..200 : entry.text[j] = text[j]
                /\ \A j \in 201..203 : entry.text[j] = "."
          /\ Len(entry.text) <= 203

C6_Witness ==
    /\ fdone
    /\ \E i \in 1..Len(formatted.citations) :
          /\ formatted.citations[i].chunk_id = <<"d2_chunk_0">>
          /\ Len(formatted.citations[i].text) = 203
    /\ \E i \in 1..Len(formatted.citations) :
          /\ formatted.citations[i].chunk_id = <<"d1_chunk_2">>
          /\ Len(formatted.citations[i].text) = 200


----------------------------------------------------------------------------
(* Claims about generation requests that come one after the other *)

\* the request r takes a step of a generation call for question q
GenerationStep(r, q) ==
    /\ req'[r] # req[r]
    /\ req'[r].kind # "idle"
    /\ req'[r].q = q

\* C1: a generation call (single, batch or streaming) for a question that
\* already has an answer record, whatever its status, hands that record on
\* unchanged, makes no search call, no LLM call and no write; a review changes
\* a record but adds none; so no question ever has more than one record.
C1_AtMostOnceGeneration ==
    [][\A q \in Questions :
         /\ Len(answers'[q]) <= 1
         /\ Len(answers[q]) > 0 =>
              /\ Len(answers'[q]) = Len(answers[q])
              /\ llm_calls'[q] = llm_calls[q]
              /\ client_calls'[q] = client_calls[q]
              /\ answers'[q] # answers[q] => (NoneUnderWay /\ req' = req /\ calls' = calls + 1)
              /\ \A r \in SerialReqs :
                   GenerationStep(r, q) =>
                     /\ answers' = answers
                     /\ req'[r].searches = req[r].searches
                     /\ req'[r].pc # "gather"
                     /\ req'[r].futA = NoFuture /\ req'[r].futB = NoFuture
                     /\ req'[r].raised = req[r].raised
                     /\ req'[r].kind = "single" =>
                           req'[r].ret = [kind |-> "row", row |-> answers[q][1]]
                     /\ req'[r].kind \in {"batch", "stream"} =>
                           /\ req'[r].generated = req[r].generated + 1
                           /\ req'[r].errors = req[r].errors
      ]_vars

C1_Witness ==
    /\ calls = 3
    /\ req["r1"].kind = "single"
    /\ req["r1"].pc = "done"
    /\ req["r1"].q = 1
    /\ req["r1"].searches = 0
    /\ req["r1"].ret.kind = "row"
    /\ req["r1"].ret.row.status = "MANUAL"
    /\ req["r1"].ret.row = answers[1][1]
    /\ Len(answers[1]) = 1
    /\ llm_calls[1] = 3

\* generate_answer for the question q of request r has just searched, the
\* search did not raise and it found no chunk
ZeroChunkStep(r, q) ==
    /\ GenerationStep(r, q)
    /\ req'[r].kind \in {"single", "batch"}
    /\ req'[r].searches = req[r].searches + 1
    /\ req'[r].raised = req[r].raised
    /\ req'[r].pc # "gather"

\* C2: when the search of generate_answer for a question without a record
\* finds no chunk, a record with confidence 0.0, answerability "no", status
\* GENERATED and the text "No documents have been indexed yet. ..." is stored
\* and handed on, and no LLM call is made for the question.
C2_EmptyRetrieval ==
    [][\A r \in SerialReqs, q \in Questions :
         ZeroChunkStep(r, q) =>
           /\ answers[q] = <<>>
           /\ Len(answers'[q]) = 1
           /\ \A p \in Questions \ {q} : answers'[p] = answers[p]
           /\ LET row == answers'[q][1] IN
                /\ row.question_id = q
                /\ row.ai_answer = PLACEHOLDER_TEXT
                /\ row.confidence = Num(0)
                /\ row.is_answerable = "no"
                /\ row.status = "GENERATED"
                /\ row.citations = <<>>
                /\ req'[r].kind = "single" => req'[r].ret = [kind |-> "row", row |-> row]
                /\ req'[r].kind = "batch" => req'[r].generated = req[r].generated + 1
           /\ llm_calls'[q] = 0
           /\ client_calls'[q] = 0
           /\ req'[r].futA = NoFuture /\ req'[r].futB = NoFuture
      ]_vars

C2_Witness ==
    /\ req["r1"].kind = "single"
    /\ req["r1"].pc = "done"
    /\ req["r1"].q = 2
    /\ req["r1"].searches = 1
    /\ req["r1"].ret.kind = "row"
    /\ req["r1"].ret.row.ai_answer = PLACEHOLDER_TEXT
    /\ req["r1"].ret.row.confidence = Num(0)
    /\ req["r1"].ret.row.is_answerable = "no"
    /\ answers[2] = <<req["r1"].ret.row>>
    /\ llm_calls[2] = 0

\* the error list of a batch in which the generation of the questions of
\* raised raised: one entry per such question, in the order of the project
ErrorsOf(raised) ==
    LET qs == SelectSeq(ProjectQuestions, LAMBDA q : q \in raised)
    IN [i \in 1..Len(qs) |-> [question_id |-> qs[i], error |-> SEARCH_ERROR]]

\* C7: the batch calls generation for every question of the project once, in
\* order, whichever of them raise; it returns total = the number of questions,
\* generated = the number that did not raise and errors = one entry per
\* raising question, and every question that did not raise has a record.
C7_BatchPartialFailure ==
    \A r \in SerialReqs :
      LET rq == req[r] IN
      rq.kind = "batch" =>
        /\ rq.pc = "loop" => rq.processed = SubSeq(ProjectQuestions, 1, rq.idx - 1)
        /\ rq.pc = "gather" => rq.processed = SubSeq(ProjectQuestions, 1, rq.idx)
        /\ rq.errors = ErrorsOf(rq.raised)
        /\ rq.pc # "gather" =>
              /\ rq.generated + Len(rq.errors) = Len(rq.processed)
              /\ \A i \in 1..Len(rq.processed) :
                    rq.processed[i] \notin rq.raised => Len(answers[rq.processed[i]]) = 1
        /\ rq.pc = "done" =>
              /\ rq.processed = ProjectQuestions
              /\ rq.ret.kind = "summary"
              /\ rq.ret.total = NQuestions
              /\ rq.ret.generated = NQuestions - Cardinality(rq.raised)
              /\ rq.ret.errors = ErrorsOf(rq.raised)
              /\ rq.ret.generated + Len(rq.ret.errors) = rq.ret.total

C7_Witness ==
    /\ req["r1"].kind = "batch"
    /\ req["r1"].pc = "done"
    /\ req["r1"].raised = {1}
    /\ req["r1"].ret.generated = NQuestions - 1
    /\ req["r1"].ret.errors = <<[question_id |-> 1, error |-> SEARCH_ERROR]>>
    /\ answers[1] = <<>>
    /\ Len(answers[2]) = 1
    /\ llm_calls[2] = 3


----------------------------------------------------------------------------
(* Claims about one generation request against a backend that may fail *)

\* what call_llm may return for the prompt and temperature of a future
ReturnsOf(fut) ==
    {call_llm(outcome) : outcome \in ClientOutcomes(fut.prompt, fut.temperature, TRUE)}

\* a future is not submitted, running or done; submitted, it carries the
\* answer prompt at its own temperature; done, it holds what its call returned
FutureOK(fut, temperature) ==
    /\ fut.state \in {"none", "running", "done"}
    /\ fut.state # "none" => (fut.prompt.kind = "answer" /\ fut.temperature = temperature)
    /\ fut.state = "done" => fut.result \in ReturnsOf(fut)
    /\ fut.state # "done" => fut.result = <<>>

\* the futures of a request that are done
DoneCount(rq) ==
    (IF rq.futA.state = "done" THEN 1 ELSE 0) + (IF rq.futB.state = "done" THEN 1 ELSE 0)

\* C8: the two variant calls are submitted together against the same prompt;
\* whichever finishes first, the merge prompt is built and the merge call
\* made only when both have returned, from the texts the two calls returned;
\* a submitted call is never cancelled.
C8_ConcurrencyJoin ==
    \A r \in SerialReqs :
      LET rq == req[r] IN
      /\ FutureOK(rq.futA, ANSWER_TEMP_A)
      /\ FutureOK(rq.futB, ANSWER_TEMP_B)
      /\ (rq.futA.state = "none") <=> (rq.futB.state = "none")
      /\ rq.futA.state # "none" =>
            /\ rq.futA.prompt = rq.futB.prompt
            /\ rq.futA.prompt = build_answer_prompt(rq.q, rq.chunks)
      /\ rq.pc = "gather" =>
            /\ rq.futA.state # "none"
            /\ rq.merge_prompt = NoPrompt
            /\ llm_calls[rq.q] = DoneCount(rq)
      /\ rq.merge_prompt # NoPrompt =>
            /\ BothDone(rq)
            /\ rq.merge_prompt = build_merge_prompt(rq.q, rq.futA.result, rq.futB.result)
            /\ llm_calls[rq.q] = 3
      /\ \A q \in Questions :
            llm_calls[q] = 3 => (rq.q = q => rq.merge_prompt.kind = "merge")

C8_Witness ==
    /\ req["r1"].pc = "done"
    /\ req["r1"].merge_prompt.kind = "merge"
    /\ req["r1"].merge_prompt.answer_a = ERROR_MARKER \o LLM_ERROR
    /\ req["r1"].merge_prompt.answer_b = VARIANT_B_TEXT
    /\ req["r1"].futA.state = "done"
    /\ req["r1"].futB.state = "done"
    /\ llm_calls[req["r1"].q] = 3

\* a text: a sequence of lexemes
IsText(s) == \A i \in 1..Len(s) : s[i] \in STRING

\* C9: call_llm makes one client call and returns a text; when the client
\* call fails it returns "ERROR: " followed by the failure instead of raising,
\* so no failure of the LLM backend reaches the caller of generation as an
\* exception.
C9_GatewayNeverRaises ==
    /\ \A q \in Questions :
          /\ client_calls[q] = llm_calls[q]
          /\ failed[q] # {} => \A r \in SerialReqs : q \notin req[r].raised
    /\ \A r \in SerialReqs :
          LET rq == req[r] IN
          /\ rq.futA.state = "done" => IsText(rq.futA.result)
          /\ rq.futB.state = "done" => IsText(rq.futB.result)
          /\ rq.q \in Questions =>
                /\ "A" \in failed[rq.q] =>
                      (rq.futA.state = "done" /\ rq.futA.result = ERROR_MARKER \o LLM_ERROR)
                /\ "B" \in failed[rq.q] =>
                      (rq.futB.state = "done" /\ rq.futB.result = ERROR_MARKER \o LLM_ERROR)
                /\ "M" \in failed[rq.q] =>
                      (rq.merge_prompt.kind = "merge" /\ Len(answers[rq.q]) = 1)
          /\ rq.ret.kind = "raised" => rq.ret.error = SEARCH_ERROR
          /\ \A i \in 1..Len(rq.errors) : rq.errors[i].error = SEARCH_ERROR
          /\ \A i \in 1..Len(rq.events) :
                rq.events[i].type = "error" => rq.events[i].error = SEARCH_ERROR

C9_Witness ==
    /\ req["r1"].pc = "gather"
    /\ req["r1"].futB.state = "done"
    /\ req["r1"].futB.result = ERROR_MARKER \o LLM_ERROR
    /\ req["r1"].futA.state = "running"
    /\ failed[req["r1"].q] = {"B"}
    /\ client_calls[req["r1"].q] = 1

----------------------------------------------------------------------------
(* Claims about the record stored after a failed LLM call *)

\* C11: whenever an LLM call of a question returned the in-band error text,
\* the record stored for the question has a confidence below the parser
\* default 0.5.
C11_DegradedConfidence ==
    \A q \in Questions :
      (failed[q] # {} /\ Len(answers[q]) = 1) =>
         FloatLt(answers[q][1].confidence, DEFAULT_CONFIDENCE)

----------------------------------------------------------------------------
(* Claims about the stream of events *)

\* the event loop goes on consuming the generator and the executor's threads
\* run the calls submitted to them: a step of the streaming loop or of a
\* worker that can be taken is taken
StreamFairness ==
    /\ WF_vars(\E r \in SerialReqs : StreamQuestion(r))
    /\ WF_vars(\E r \in SerialReqs, which \in {"A", "B"} : RunVariant(r, which))
    /\ WF_vars(\E r \in SerialReqs : StreamJoin(r))

SpecGenFair == SpecGen /\ StreamFairness

\* the events of one type, in the order they were yielded
EventsOfType(events, type) == SelectSeq(events, LAMBDA e : e.type = type)

\* the error events of a stream in which the generation of the questions of
\* raised raised: one per such question, in the order of the project
ErrorEventsOf(raised) ==
    LET qs == SelectSeq(ProjectQuestions, LAMBDA q : q \in raised)
    IN [i \in 1..Len(qs) |-> ErrorEvent(qs[i], SEARCH_ERROR)]

\* what holds of the events of a stream at every moment
StreamEventsOK(rq) ==
    /\ Len(EventsOfType(rq.events, "complete")) = (IF rq.pc = "done" THEN 1 ELSE 0)
    /\ EventsOfType(rq.events, "error") = ErrorEventsOf(rq.raised)
    /\ rq.errors = ErrorsOf(rq.raised)
    /\ rq.pc = "loop" => rq.processed = SubSeq(ProjectQuestions, 1, rq.idx - 1)
    /\ rq.pc = "gather" => rq.processed = SubSeq(ProjectQuestions, 1, rq.idx)
    /\ rq.pc = "done" =>
          /\ rq.processed = ProjectQuestions
          /\ rq.events[Len(rq.events)] =
                [type |-> "complete", project_id |-> "p1", total |-> NQuestions,
                 generated |-> NQuestions - Cardinality(rq.raised),
                 errors |-> ErrorsOf(rq.raised)]

\* C12: whichever questions fail, the stream yields one error event per
\* failing question and goes on with the next question; it ends, and ends
\* with its one complete event, which carries project_id, total, generated and
\* errors.
C12_StreamTermination ==
    /\ [](\A r \in SerialReqs : req[r].kind = "stream" => StreamEventsOK(req[r]))
    /\ \A r \in SerialReqs :
          (req[r].kind = "stream") ~> (req[r].kind = "stream" /\ req[r].pc = "done")

C12_Witness ==
    /\ req["r1"].kind = "stream"
    /\ req["r1"].pc = "done"
    /\ req["r1"].raised = {1}
    /\ Len(EventsOfType(req["r1"].events, "error")) = 1
    /\ Len(EventsOfType(req["r1"].events, "complete")) = 1
    /\ req["r1"].events[Len(req["r1"].events)].type = "complete"
    /\ req["r1"].events[Len(req["r1"].events)].generated = NQuestions - 1
    /\ Len(answers[2]) = 1

----------------------------------------------------------------------------
(* Batch and streaming callers *)

\* the rows generate_answer would store for question q from the point the
\* request rq has come to: the placeholder record of its zero-chunk branch
\* or, at the join, the record built from the two variants and a merged text
BatchRows(table, rq, q) ==
    IF rq.pc = "gather"
    THEN {GeneratedAnswer(table, q, rq.chunks, rq.futA.result, rq.futB.result, raw) :
             raw \in FinalTexts}
    ELSE {GenerateBegin(table, q, found).row :
             found \in {f \in SearchOutcomes : f.kind # "raise" /\ Len(f.chunks) = 0}}

\* a step of a streaming request that stores a row for question q
StreamStores(r, q) ==
    /\ req[r].kind = "stream"
    /\ Len(answers'[q]) = Len(answers[q]) + 1

\* C13: every answer record a streaming request stores is the record the
\* batch caller's generate_answer stores for the same question, search result
\* and LLM responses, on the zero-chunk path as on the generated path.
C13_TransportIndependence ==
    [][\A r \in Reqs : \A q \in Questions :
         StreamStores(r, q) =>
            answers'[q][Len(answers'[q])] \in BatchRows(answers, req[r], q)]_vars

----------------------------------------------------------------------------
(* Concurrent requests: the two routes of generate_answer served by one
   event loop, which switches between requests only at an await *)

RaceInit ==
    /\ answers = [q \in Questions |-> <<>>]
    /\ req = [r \in Reqs |-> IdleRequest]
    /\ llm_calls = [q \in Questions |-> 0]
    /\ client_calls = [q \in Questions |-> 0]
    /\ failed = [q \in Questions |-> {}]
    /\ calls = MaxCalls - 2
    /\ faults = 0
    /\ fault_limit = 0
    /\ project_status = "DRAFT"

RaceNext ==
    \/ \E r \in Reqs, q \in Questions : GenerateSingle(r, q)
    \/ \E r \in Reqs : GenerateBatch(r)
    \/ \E r \in Reqs : BatchQuestion(r)
    \/ \E r \in Reqs, which \in {"A", "B"} : RunVariant(r, which)
    \/ \E r \in Reqs : GenerateJoin(r)
    \/ \E r \in Reqs : Respond(r)

InitRace == RaceInit /\ ParseIdle /\ CiteIdle

SpecRace == InitRace /\ [][RaceNext]_vars

\* request r, suspended at asyncio.gather for question q, goes on
JoinStep(r, q) ==
    /\ req[r].pc = "gather"
    /\ req[r].q = q
    /\ req'[r] # req[r]
    /\ Gathered(req[r])

\* C14: a request that resumes after the join calls the merge model and
\* inserts its row whatever rows the question has by then (the existence
\* check is not repeated and question_id is not unique), so two requests
\* that both passed the check store two rows and call the LLM twice over.
C14_IdempotencyRace ==
    [][\A r \in Reqs : \A q \in Questions :
         JoinStep(r, q) =>
            /\ Len(answers'[q]) = Len(answers[q]) + 1
            /\ llm_calls'[q] = llm_calls[q] + 1
            /\ answers'[q][Len(answers'[q])].id # answers'[q][1].id
                  <=> Len(answers[q]) > 0]_vars

\* both requests passed the check before either inserted, and both inserted
C14_Witness ==
    /\ req["r1"].kind = "single" /\ req["r2"].kind = "single"
    /\ req["r1"].pc = "done" /\ req["r2"].pc = "done"
    /\ req["r1"].q = 1 /\ req["r2"].q = 1
    /\ req["r1"].searches = 1 /\ req["r2"].searches = 1
    /\ Len(answers[1]) = 2
    /\ answers[1][1].id # answers[1][2].id
    /\ {req["r1"].ret.row, req["r2"].ret.row} = {answers[1][1], answers[1][2]}
    /\ llm_calls[1] = 6

----------------------------------------------------------------------------
(* Stage events *)

Range(s) == {s[i] : i \in 1..Len(s)}

\* the stages of the progress events yielded for question number n, in order
StagesOf(events, n) ==
    LET sel == SelectSeq(events, LAMBDA e : e.type = "progress" /\ e.question_num = n)
    IN [i \in 1..Len(sel) |-> sel[i].stage]

\* the stage names of the progress reporting, in the order of the pipeline
PIPELINE_STAGES ==
    <<"retrieving_context", "parallel_generation", "merging_answers",
      "formatting_citations", "complete">>

\* the turn of the streaming loop for question number n is over
TurnOver(rq, n) == rq.idx > n \/ rq.pc = "done"

\* C15: the stage events of a question that was generated are, in this
\* order, retrieving_context, parallel_generation, merging_answers,
\* formatting_citations, complete, the last one only once the record is
\* stored; a question with an existing answer has a cached event and a
\* failing question an error event.
C15_StageOrdering ==
    \A r \in SerialReqs : \A n \in 1..NQuestions :
      LET rq == req[r]
          stages == StagesOf(rq.events, n)
          q == ProjectQuestions[n]
      IN (rq.kind = "stream" /\ TurnOver(rq, n)) =>
           /\ ("parallel_generation" \in Range(stages)) => stages = PIPELINE_STAGES
           /\ ("complete" \in Range(stages)) => Len(answers[q]) > 0
           /\ (q \in rq.raised) <=> (ErrorEvent(n, SEARCH_ERROR) \in Range(rq.events))

----------------------------------------------------------------------------
(* Writes of a generation request *)

\* a step of request r in its generation of question q
PipelineStep(r, q) ==
    /\ req'[r] # req[r]
    /\ req'[r].kind # "idle"
    /\ req'[r].q = q

\* the row is the record of the zero-chunk branch, written by the step
\* that searched
ZeroChunkWrite(r, row) ==
    /\ req[r].pc # "gather"
    /\ req'[r].searches = (IF req[r].kind = "idle" THEN 0 ELSE req[r].searches) + 1
    /\ row.answer_variant_a = <<>> /\ row.answer_variant_b = <<>>
    /\ row.citations = <<>>
    /\ row.confidence = Num(0) /\ row.is_answerable = "no"

\* the row is written after the join, from the two variants, the merged,
\* parsed and formatted text, by the step that made the third LLM call
PipelineWrite(r, q, row) ==
    /\ req[r].pc = "gather"
    /\ Gathered(req[r])
    /\ llm_calls[q] = 2 /\ llm_calls'[q] = 3
    /\ req'[r].merge_prompt =
          build_merge_prompt(q, req[r].futA.result, req[r].futB.result)
    /\ row \in BatchRows(answers, req[r], q)

\* C16: a generation request writes the row of a question in one step, after
\* retrieval, both variants, merge, parse and citation formatting, or on the
\* zero-chunk branch; while the pipeline is under way and when it raises the
\* question has no row, and no step touches the rows of another question.
C16_NoPartialWrites ==
    [][\A r \in SerialReqs :
         (req'[r] # req[r] /\ req'[r].kind # "idle") =>
            /\ \A p \in Questions : req'[r].q # p => answers'[p] = answers[p]
            /\ \A q \in Questions : PipelineStep(r, q) =>
                 /\ \/ answers'[q] = answers[q]
                    \/ /\ answers[q] = <<>>
                       /\ Len(answers'[q]) = 1
                       /\ answers'[q][1].status = "GENERATED"
                       /\ \/ ZeroChunkWrite(r, answers'[q][1])
                          \/ PipelineWrite(r, q, answers'[q][1])
                 /\ req'[r].pc = "gather" => answers'[q] = <<>>
                 /\ q \in req'[r].raised => answers'[q] = <<>>]_vars

\* a request for question 1 raised in its search: question 1 has no row and
\* the row of question 2, generated before, is as it was
C16_Witness ==
    /\ req["r1"].kind = "single"
    /\ req["r1"].pc = "done"
    /\ req["r1"].q = 1
    /\ req["r1"].ret.kind = "raised"
    /\ answers[1] = <<>>
    /\ Len(answers[2]) = 1
    /\ answers[2][1].answer_variant_a = VARIANT_A_TEXT
    /\ Len(answers[2][1].citations) = 1
    /\ llm_calls[2] = 3

----------------------------------------------------------------------------
(* The split of the raw text at the confidence marker *)

\* k is the position of the last marker of raw
IsLastMarker(raw, k) ==
    /\ raw[k] = CONFIDENCE_MARKER
    /\ \A j \in (k+1)..Len(raw) : raw[j] # CONFIDENCE_MARKER

\* text is raw[1..k-1] without its leading and trailing whitespace
IsStrippedPrefix(text, raw, k) ==
    \E a \in 1..k, b \in 0..(k-1) :
      /\ text = SubSeq(raw, a, b)
      /\ \A j \in 1..(a-1) : IsSpace(raw[j])
      /\ \A j \in (b+1)..(k-1) : IsSpace(raw[j])
      /\ a <= b => (~IsSpace(raw[a]) /\ ~IsSpace(raw[b]))
      /\ a > b => \A j \in 1..(k-1) : IsSpace(raw[j])

\* tok is the whitespace-delimited token right after position k of raw, the
\* empty sequence if none follows
IsTokenAfter(tok, raw, k) ==
    \/ /\ tok = <<>>
       /\ \A j \in (k+1)..Len(raw) : IsSpace(raw[j])
    \/ \E a \in (k+1)..Len(raw), b \in (k+1)..Len(raw) :
         /\ a <= b
         /\ tok = SubSeq(raw, a, b)
         /\ \A j \in (k+1)..(a-1) : IsSpace(raw[j])
         /\ \A j \in a..b : ~IsSpace(raw[j])
         /\ b = Len(raw) \/ IsSpace(raw[b+1])

\* C17: when the raw text holds the marker CONFIDENCE:, the confidence is
\* parsed from the token right after its LAST occurrence and the answer
\* text is the whitespace-stripped text before that same occurrence; when
\* the marker is absent the text is the raw text unchanged.
C17_LastOccurrenceSplit ==
    pdone =>
      /\ ~Contains(response, CONFIDENCE_MARKER) => parsed.text = response
      /\ \A k \in 1..Len(response) : IsLastMarker(response, k) =>
           /\ IsStrippedPrefix(parsed.text, response, k)
           /\ \A a \in (k+1)..(Len(response)+1), b \in k..Len(response) :
                IsTokenAfter(SubSeq(response, a, b), response, k) =>
                   parsed.confidence =
                      (IF PyFloat(SubSeq(response, a, b)).ok
                       THEN Clamp(PyFloat(SubSeq(response, a, b)).val)
                       ELSE DEFAULT_CONFIDENCE)

\* two markers: the text keeps the first and its numeral, the confidence is
\* the numeral after the second
C17_Witness ==
    /\ pdone
    /\ response = <<CONFIDENCE_MARKER, "1.7", CONFIDENCE_MARKER, "0.8">>
    /\ parsed.text = <<CONFIDENCE_MARKER, "1.7">>
    /\ parsed.confidence = Num(8)

----------------------------------------------------------------------------
(* The citation list *)

\* the entries of the returned list built from the retrieved chunk
EntriesOfChunk(chunk) ==
    {i \in 1..Len(formatted.citations) : formatted.citations[i].chunk_id = chunk.id}

\* C18: the returned citation list has at most one entry for a (doc_name,
\* page) key and at most one entry, so one number, for a retrieved chunk:
\* chunks that share a key give one entry in pass 1, and a bracketed mention
\* of a source that has a number gives no further entry in pass 2.
C18_CitationUniqueness ==
    fdone =>
      /\ \A i, j \in 1..Len(formatted.citations) :
            (/\ formatted.citations[i].doc_name = formatted.citations[j].doc_name
             /\ formatted.citations[i].page = formatted.citations[j].page) => i = j
      /\ \A c \in 1..Len(context_chunks) :
            Cardinality(EntriesOfChunk(context_chunks[c])) <= 1
      /\ \A c, d \in 1..Len(context_chunks) :
            (/\ c < d
             /\ context_chunks[c].metadata.doc_name = context_chunks[d].metadata.doc_name
             /\ context_chunks[c].metadata.page = context_chunks[d].metadata.page)
               => EntriesOfChunk(context_chunks[d]) = {}

\* two retrieved chunks of one page, mentioned twice: one entry, one number
C18_Witness ==
    /\ fdone
    /\ Len(context_chunks) = 2
    /\ context_chunks[1].id = <<"d1_chunk_0">>
    /\ context_chunks[2].id = <<"d1_chunk_1">>
    /\ answer_text = FormatSource(NAME_10K, 5) \o <<" ">> \o FormatSource(NAME_10K, 5)
    /\ Len(formatted.citations) = 1
    /\ formatted.citations[1].chunk_id = <<"d1_chunk_0">>
    /\ formatted.text = Marker(1) \o <<" ">> \o Marker(1)

\* the match m of the citation pattern names the source of the entry
MatchesEntry(m, entry) ==
    /\ m.ok
    /\ Strip(m.name) = entry.doc_name
    /\ PyInt(m.digits) = entry.page

\* the positions of the answer text at which a bracketed mention of the
\* entry's source begins
MentionsOf(entry) ==
    {p \in 1..Len(answer_text) : MatchesEntry(CitationPatternAt(answer_text, p), entry)}

\* the least element of a non-empty set of positions
Least(S) == CHOOSE p \in S : \A o \in S : p <= o

\* the entry was built from a retrieved chunk
FromChunk(entry) == entry.chunk_id # <<>>

\* C19: the entries of retrieved chunks are numbered in the order of the
\* chunk list, not of their mentions in the text; a bracketed mention of a
\* source without a number gets an entry with empty doc_id, text and
\* chunk_id and the next number, above every number of a chunk, such
\* entries being numbered in the order their mentions appear in the text.
C19_NumberingOrder ==
    fdone =>
      /\ \A c, d \in 1..Len(context_chunks) :
           \A i \in EntriesOfChunk(context_chunks[c]), j \in EntriesOfChunk(context_chunks[d]) :
              c < d => formatted.citations[i].num < formatted.citations[j].num
      /\ \A i, j \in 1..Len(formatted.citations) :
           LET e == formatted.citations[i]
               f == formatted.citations[j]
           IN /\ ~FromChunk(e) =>
                   /\ e.doc_id = <<>> /\ e.text = <<>>
                   /\ MentionsOf(e) # {}
                   /\ FromChunk(f) => f.num < e.num
                   /\ e.num = 1 + Cardinality({k \in 1..Len(formatted.citations) :
                                                  formatted.citations[k].num < e.num})
              /\ (~FromChunk(e) /\ ~FromChunk(f) /\ MentionsOf(e) # {} /\ MentionsOf(f) # {}
                    /\ Least(MentionsOf(e)) < Least(MentionsOf(f))) => e.num < f.num

\* the chunk of page 57 comes before the chunk of page 5 in the list and
\* the text mentions an unknown source before page 5: the chunks are 1 and
\* 2, the unknown source is 3, and the text reads [3] [2]
C19_Witness ==
    /\ fdone
    /\ Len(context_chunks) = 2
    /\ context_chunks[1].id = <<"d1_chunk_2">>
    /\ context_chunks[2].id = <<"d1_chunk_0">>
    /\ answer_text = FormatSource(NAME_MEMO, 5) \o <<" ">> \o FormatSource(NAME_10K, 5)
    /\ Len(formatted.citations) = 3
    /\ formatted.citations[1].chunk_id = <<"d1_chunk_2">> /\ formatted.citations[1].num = 1
    /\ formatted.citations[2].chunk_id = <<"d1_chunk_0">> /\ formatted.citations[2].num = 2
    /\ formatted.citations[3] = InventedCitation(NAME_MEMO, 5, 3)
    /\ formatted.text = Marker(3) \o <<" ">> \o Marker(2)

\* the numbered marker that begins at position p of the returned text is
\* the marker of the entry at list position k
MarkerAt(p, k) ==
    /\ p + Len(Marker(k)) - 1 <= Len(formatted.text)
    /\ SubSeq(formatted.text, p, p + Len(Marker(k)) - 1) = Marker(k)

\* C20: the numbers of the returned citation list are 1..n without gap or
\* repeat, the entry at the i-th place of the list has the number i, and
\* every numbered marker [k] in the returned text has its entry with num = k
\* in the list.
C20_CitationListNumbering ==
    fdone =>
      /\ \A i \in 1..Len(formatted.citations) : formatted.citations[i].num = i
      /\ {formatted.citations[i].num : i \in 1..Len(formatted.citations)}
            = 1..Len(formatted.citations)
      /\ \A p \in 1..Len(formatted.text) :
            formatted.text[p] = "[" =>
               \E k \in 1..Len(formatted.citations) :
                  MarkerAt(p, k) /\ formatted.citations[k].num = k

\* a retrieved chunk named only in a parenthesised source, and an unknown
\* source in brackets: entries 1 and 2, the text keeps the marker [2]
C20_Witness ==
    /\ fdone
    /\ Len(context_chunks) = 1
    /\ context_chunks[1].id = <<"d1_chunk_0">>
    /\ answer_text = FormatSource(NAME_MEMO, 5) \o <<" ">>
                       \o <<"(Source:", " ", "10-K.pdf", " ", "Page", " ", "5", ")">>
    /\ Len(formatted.citations) = 2
    /\ formatted.citations[1].chunk_id = <<"d1_chunk_0">>
    /\ formatted.citations[2] = InventedCitation(NAME_MEMO, 5, 2)
    /\ formatted.text = Marker(2) \o <<" ">>

----------------------------------------------------------------------------
(* Attribution of the two variants *)

\* the request has made its merge call for its question
Merged(rq) == rq.merge_prompt.kind = "merge"

\* the row the request stored for its question
RowOf(rq) == answers[rq.q][Len(answers[rq.q])]

\* C21: whichever of the two variant calls completes first, variant A of the
\* stored record and ANSWER A of the merge prompt are the text the call at
\* answer_temp_a (the lower temperature) returned, variant B and ANSWER B
\* the text the call at answer_temp_b returned.
C21_VariantAttribution ==
    /\ ANSWER_TEMP_A < ANSWER_TEMP_B
    /\ \A q \in Questions : \A i \in 1..Len(answers[q]) :
          /\ answers[q][i].answer_variant_a # VARIANT_B_TEXT
          /\ answers[q][i].answer_variant_b # VARIANT_A_TEXT
    /\ \A r \in SerialReqs :
          Merged(req[r]) =>
             /\ req[r].futA.temperature = ANSWER_TEMP_A
             /\ req[r].futB.temperature = ANSWER_TEMP_B
             /\ req[r].finished \in {<<"A", "B">>, <<"B", "A">>}
             /\ req[r].merge_prompt.answer_a = req[r].futA.result
             /\ req[r].merge_prompt.answer_b = req[r].futB.result
             /\ Len(answers[req[r].q]) = 1
             /\ RowOf(req[r]).answer_variant_a = req[r].futA.result
             /\ RowOf(req[r]).answer_variant_b = req[r].futB.result

\* the call at the higher temperature completed first
C21_Witness ==
    /\ req["r1"].kind = "single"
    /\ req["r1"].pc = "done"
    /\ req["r1"].finished = <<"B", "A">>
    /\ req["r1"].futA.result = VARIANT_A_TEXT
    /\ req["r1"].futB.result = VARIANT_B_TEXT
    /\ req["r1"].ret.row.answer_variant_a = VARIANT_A_TEXT
    /\ req["r1"].ret.row.answer_variant_b = VARIANT_B_TEXT
    /\ req["r1"].merge_prompt = build_merge_prompt(req["r1"].q, VARIANT_A_TEXT, VARIANT_B_TEXT)

====
